---- MODULE Spec2Model ----
(***************************************************************************)
(* OneSong API v4.4 (src/main.py): the /audio_analysis handler with its    *)
(* module-level analysis cache, and the /stream handler with its MIME      *)
(* probe and its streaming generator.                                      *)
(*                                                                         *)
(* The handlers are coroutines on one event loop: a handler runs without   *)
(* interruption from one await to the next, so each action below is the    *)
(* code between two consecutive suspension points.  _download_audio and    *)
(* _analyze_with_essentia run on executor threads and touch nothing but    *)
(* their own request's files, so each is one action.                       *)
(*                                                                         *)
(* Strings the code inspects character by character (ids, the probe's      *)
(* output) are sequences of one-character strings.                         *)
(***************************************************************************)
EXTENDS Integers, Sequences, FiniteSets, TLC

(***************************************************************************)
(* Bounds of the model.                                                    *)
(***************************************************************************)
\* number of /audio_analysis requests in flight over a run
NumAnalysisReqs == 2
\* number of distinct waveforms a download can deliver for one id
NumWaveforms == 2
\* number of chunks the streaming child writes at most
MaxChunks == 2

AReqs == 1..NumAnalysisReqs
Waveforms == 1..NumWaveforms

(***************************************************************************)
(* Ids.                                                                    *)
(***************************************************************************)
\* the character class [a-zA-Z0-9_-] of main.py:725 (and [0-9A-Za-z_-] of :167)
IdChars ==
    { "a","b","c","d","e","f","g","h","i","j","k","l","m",
      "n","o","p","q","r","s","t","u","v","w","x","y","z",
      "A","B","C","D","E","F","G","H","I","J","K","L","M",
      "N","O","P","Q","R","S","T","U","V","W","X","Y","Z",
      "0","1","2","3","4","5","6","7","8","9","_","-" }

\* the {11} of the id patterns
IdLen == 11

\* Python's None for an absent youtube_id / a NULL column (no character
\* sequence equals it: its one element is not a single character)
None == << "None" >>

\* values of the youtube_id query parameter that clients send
GoodId    == << "d","Q","w","4","w","9","W","g","X","c","Q" >>
ShortId   == << "a","b","c" >>
NewlineId == GoodId \o << "\n" >>
EmptyId   == << >>

\* "not vid" never holding: every value counts as an id
TruthyAlways(s) == TRUE
\* "not vid" of main.py:639 and :655
Truthy(s) == s # None /\ s # EmptyId

\* re.match(r'^[a-zA-Z0-9_\-]{11}$', s) of main.py:725: eleven characters of
\* the class, then the end of the string; Python's $ also matches just
\* before a newline that ends the string
re_match_id(s) ==
    /\ s # None
    /\ Len(s) >= IdLen
    /\ \A i \in 1..IdLen : s[i] \in IdChars
    /\ \/ Len(s) = IdLen
       \/ Len(s) = IdLen + 1 /\ s[IdLen + 1] = "\n"

(***************************************************************************)
(* Timelines.  The synthetic timeline is one fixed value                   *)
(* (_fallback_analysis() is called without arguments and is deterministic);*)
(* a real timeline is a function of the waveform that was analysed.        *)
(***************************************************************************)
NoTimeline == [kind |-> "none", wav |-> 0]

\* _fallback_analysis() with the default duration_estimate
_fallback_analysis == [kind |-> "synthetic", wav |-> 0]

RealTimeline(w) == [kind |-> "real", wav |-> w]

NoResponse == [status |-> 0, body |-> NoTimeline]
\* a handler returning a dict: FastAPI answers 200 with the dict as JSON
Ok(tl) == [status |-> 200, body |-> tl]
\* an exception leaving the handler: add_cors turns it into a 500
ServerError == [status |-> 500, body |-> NoTimeline]

VARIABLES
    backend,       \* ESSENTIA_AVAILABLE, NUMPY_AVAILABLE (set at import)
    cache,         \* _analysis_cache: id -> timeline
    areq,          \* the /audio_analysis requests
    tmpdirs,       \* the TemporaryDirectory of each request that holds one
    completedIds   \* history: ids for which a request has completed

avars == << backend, cache, areq, tmpdirs, completedIds >>

VARIABLES
    st,            \* the /stream request: handler and generator
    pproc,         \* the process started by _probe_stream_mime
    child,         \* the process started by audio_generator
    pipe           \* chunks the child has written and the generator not read

svars == << st, pproc, child, pipe >>

VARIABLES
    timeline,      \* one run of _fallback_analysis or _analyze_with_essentia
    rs,            \* one call of extract_youtube_id
    dlcall         \* one call of _download_audio
fvars == << timeline, rs, dlcall >>

vars == << backend, cache, areq, tmpdirs, completedIds,
           st, pproc, child, pipe, timeline, rs, dlcall >>

(***************************************************************************)
(* /audio_analysis                                                         *)
(***************************************************************************)
AnalysisParams == { None, EmptyId, GoodId, ShortId }

\* what the users-table lookup of lines 640-651 does: get_db() raises,
\* the query raises, no row, a row with a NULL column, a row with an id
DbOutcomes ==
    { [kind |-> "unavailable", vid |-> None],
      [kind |-> "error",       vid |-> None],
      [kind |-> "norow",       vid |-> None],
      [kind |-> "row",         vid |-> None],
      [kind |-> "row",         vid |-> GoodId] }

\* lines 638-653: the parameter wins; the DB is asked only when it is
\* absent or empty, and every failure of the lookup leaves vid as it was
ResolveVid(youtube_id, db) ==
    IF Truthy(youtube_id) THEN youtube_id
    ELSE IF db.kind = "row" THEN db.vid
    ELSE youtube_id

\* the values vid can have at line 655, over the parameters and the
\* outcomes of the lookup
ResolvedVids ==
    { ResolveVid(youtube_id, db) : youtube_id \in AnalysisParams,
                                   db \in DbOutcomes }

\* CacheHit with the lookup left out
CacheHitSkipped(c, vid) == FALSE

\* line 659: vid in _analysis_cache
CacheHit(c, vid) == vid \in DOMAIN c

\* lines 674 and 692: _analysis_cache[vid] = result
CacheStore(c, vid, tl) ==
    [k \in (DOMAIN c) \cup {vid} |-> IF k = vid THEN tl ELSE c[k]]

\* line 665: ESSENTIA_AVAILABLE and NUMPY_AVAILABLE and shutil.which("yt-dlp")
BackendReady(b, which) == b.essentia /\ b.numpy /\ which

NoDownload == [ret |-> FALSE, raised |-> FALSE, proc |-> "none"]
NoAnalysis == [raised |-> FALSE, cause |-> "none", loaded |-> FALSE,
               value |-> NoTimeline]

IdleReq ==
    [pc |-> "idle", vid |-> None, late |-> FALSE, dl |-> NoDownload,
     wav |-> 0, an |-> NoAnalysis, resp |-> NoResponse]

\* lines 691-693: the synthetic timeline is stored under vid and returned
FallbackAndStore(r, vid) ==
    /\ cache' = CacheStore(cache, vid, _fallback_analysis)
    /\ areq' = [areq EXCEPT ![r].pc = "done", ![r].vid = vid,
                            ![r].resp = Ok(_fallback_analysis)]
    /\ completedIds' = completedIds \cup {vid}

\* lines 638-669: from the entry of the handler to its first await
audio_analysis(r) ==
    /\ areq[r].pc = "idle"
    /\ \E vid \in ResolvedVids, which \in BOOLEAN :
         IF ~Truthy(vid)
         THEN \* lines 655-657
              /\ areq' = [areq EXCEPT ![r].pc = "done", ![r].vid = vid,
                                      ![r].resp = Ok(_fallback_analysis)]
              /\ UNCHANGED << cache, tmpdirs, completedIds >>
         ELSE IF CacheHit(cache, vid)
         THEN \* lines 659-661
              /\ areq' = [areq EXCEPT ![r].pc = "done", ![r].vid = vid,
                                      ![r].late = vid \in completedIds,
                                      ![r].resp = Ok(cache[vid])]
              /\ UNCHANGED << cache, tmpdirs, completedIds >>
         ELSE IF BackendReady(backend, which)
         THEN \* lines 665-669: the download is handed to the executor
              /\ areq' = [areq EXCEPT ![r].pc = "download", ![r].vid = vid,
                                      ![r].late = vid \in completedIds]
              /\ tmpdirs' = tmpdirs \cup {r}
              /\ UNCHANGED << cache, completedIds >>
         ELSE \* lines 681-693
              /\ FallbackAndStore(r, vid)
              /\ UNCHANGED tmpdirs
    /\ UNCHANGED backend
    /\ UNCHANGED svars
    /\ UNCHANGED fvars

\* what subprocess.run(cmd, timeout=120, ...) of line 262 meets: the child
\* exits with a return code, having written the output file or not; the
\* 120 s pass; or the child cannot be started
RunOutcomes ==
    [kind : {"exit"}, rc : {0, 1}, file : BOOLEAN]
      \cup [kind : {"timeout"}, rc : {-9}, file : BOOLEAN]
      \cup [kind : {"oserror"}, rc : {-1}, file : {FALSE}]

\* the child of subprocess.run when run returns or raises: run waits for the
\* child it started, and on timeout kills it and waits for it, before
\* TimeoutExpired reaches line 266
SubprocessRunProc(run) == IF run.kind = "oserror" THEN "none" ELSE "reaped"

\* _download_audio without its except clauses: TimeoutExpired and the
\* errors of starting the child reach the caller
_download_audio_unguarded(which, run) ==
    IF ~which
    THEN [ret |-> FALSE, raised |-> FALSE, proc |-> "none"]
    ELSE IF run.kind = "exit"
    THEN [ret |-> (run.rc = 0 /\ run.file), raised |-> FALSE,
          proc |-> SubprocessRunProc(run)]
    ELSE [ret |-> FALSE, raised |-> TRUE, proc |-> SubprocessRunProc(run)]

\* _download_audio without the test that the output file exists
_download_audio_unchecked(which, run) ==
    IF ~which
    THEN [ret |-> FALSE, raised |-> FALSE, proc |-> "none"]
    ELSE IF run.kind = "exit"
    THEN [ret |-> (run.rc = 0), raised |-> FALSE,
          proc |-> SubprocessRunProc(run)]
    ELSE [ret |-> FALSE, raised |-> FALSE, proc |-> SubprocessRunProc(run)]

\* lines 237-271: `which` is shutil.which("yt-dlp") of line 244
_download_audio(which, run) ==
    IF ~which
    THEN [ret |-> FALSE, raised |-> FALSE, proc |-> "none"]
    ELSE IF run.kind = "exit"
    THEN [ret |-> (run.rc = 0 /\ run.file), raised |-> FALSE,
          proc |-> SubprocessRunProc(run)]
    ELSE \* except subprocess.TimeoutExpired / except Exception
         [ret |-> FALSE, raised |-> FALSE, proc |-> SubprocessRunProc(run)]

\* the executor thread of line 669 runs _download_audio to its end.  A
\* thread whose request was cancelled meanwhile is not stopped: its child
\* still writes to out_path, making the directory anew when it is gone,
\* and nobody takes the result
DownloadThread(r) ==
    /\ areq[r].pc \in { "download", "download_orphan" }
    /\ \E which \in BOOLEAN, run \in RunOutcomes, w \in Waveforms :
         LET file == IF which /\ run.file THEN w ELSE 0 IN
         IF areq[r].pc = "download"
         THEN /\ areq' = [areq EXCEPT
                            ![r].pc  = "downloaded",
                            ![r].dl  = _download_audio(which, run),
                            ![r].wav = file]
              /\ UNCHANGED tmpdirs
         ELSE /\ areq' = [areq EXCEPT ![r].pc = "cancelled", ![r].wav = file]
              /\ tmpdirs' = IF file # 0 THEN tmpdirs \cup {r} ELSE tmpdirs
    /\ UNCHANGED << backend, cache, completedIds >>
    /\ UNCHANGED svars
    /\ UNCHANGED fvars

\* lines 669-680: the handler resumes with the download's result
audio_analysis_downloaded(r) ==
    /\ areq[r].pc = "downloaded"
    /\ IF areq[r].dl.raised
       THEN \* line 669 is in no try block: the exception leaves the handler
            /\ areq' = [areq EXCEPT ![r].pc = "done", ![r].wav = 0,
                                    ![r].resp = ServerError]
            /\ tmpdirs' = tmpdirs \ {r}
            /\ UNCHANGED << cache, completedIds >>
       ELSE IF areq[r].dl.ret
       THEN \* lines 670-673: the analysis is handed to the executor
            /\ areq' = [areq EXCEPT ![r].pc = "analyze"]
            /\ UNCHANGED << cache, tmpdirs, completedIds >>
       ELSE \* lines 679-680, the with block ends, then lines 691-693
            /\ cache' = CacheStore(cache, areq[r].vid, _fallback_analysis)
            /\ areq' = [areq EXCEPT ![r].pc = "done", ![r].wav = 0,
                                    ![r].resp = Ok(_fallback_analysis)]
            /\ completedIds' = completedIds \cup {areq[r].vid}
            /\ tmpdirs' = tmpdirs \ {r}
    /\ UNCHANGED backend
    /\ UNCHANGED svars
    /\ UNCHANGED fvars

\* the 45 of line 284, in MB
OomGuardMB == 45
\* sizes of the WAV file in MB: at the guard and just over it
WavSizes == { OomGuardMB, OomGuardMB + 1 }

\* _analyze_with_essentia with the size guard placed after the loader
_analyze_with_essentia_late_guard(b, sizeMB, es, w) ==
    IF ~b.essentia \/ ~b.numpy
    THEN [raised |-> TRUE, cause |-> "unavailable", loaded |-> FALSE,
          value |-> NoTimeline]
    ELSE IF sizeMB > OomGuardMB
    THEN [raised |-> TRUE, cause |-> "too_large", loaded |-> TRUE,
          value |-> NoTimeline]
    ELSE IF es = "raise"
    THEN [raised |-> TRUE, cause |-> "essentia", loaded |-> TRUE,
          value |-> NoTimeline]
    ELSE [raised |-> FALSE, cause |-> "none", loaded |-> TRUE,
          value |-> RealTimeline(w)]

\* lines 274-332: `es` says whether the Essentia pipeline (loader, rhythm
\* extractor, frame loop) runs to its end or raises
_analyze_with_essentia(b, sizeMB, es, w) ==
    IF ~b.essentia \/ ~b.numpy
    THEN [raised |-> TRUE, cause |-> "unavailable", loaded |-> FALSE,
          value |-> NoTimeline]
    ELSE IF sizeMB > OomGuardMB
    THEN [raised |-> TRUE, cause |-> "too_large", loaded |-> FALSE,
          value |-> NoTimeline]
    ELSE IF es = "raise"
    THEN [raised |-> TRUE, cause |-> "essentia", loaded |-> TRUE,
          value |-> NoTimeline]
    ELSE [raised |-> FALSE, cause |-> "none", loaded |-> TRUE,
          value |-> RealTimeline(w)]

\* the executor thread of line 673 runs _analyze_with_essentia to its end;
\* the result of a thread whose request was cancelled is taken by nobody
AnalyzeThread(r) ==
    /\ areq[r].pc \in { "analyze", "analyze_orphan" }
    /\ \E sizeMB \in WavSizes, es \in {"ok", "raise"} :
         areq' = IF areq[r].pc = "analyze"
                 THEN [areq EXCEPT
                         ![r].pc = "analyzed",
                         ![r].an = _analyze_with_essentia(backend, sizeMB, es,
                                                          areq[r].wav)]
                 ELSE [areq EXCEPT ![r].pc = "cancelled"]
    /\ UNCHANGED << backend, cache, tmpdirs, completedIds >>
    /\ UNCHANGED svars
    /\ UNCHANGED fvars

\* lines 673-678 and 691-693: the handler resumes with the analysis' result
audio_analysis_analyzed(r) ==
    /\ areq[r].pc = "analyzed"
    /\ LET tl == IF areq[r].an.raised
                 THEN _fallback_analysis     \* except Exception, then 691
                 ELSE areq[r].an.value       \* lines 674-676
       IN /\ cache' = CacheStore(cache, areq[r].vid, tl)
          /\ areq' = [areq EXCEPT ![r].pc = "done", ![r].wav = 0,
                                  ![r].resp = Ok(tl)]
    /\ completedIds' = completedIds \cup {areq[r].vid}
    /\ tmpdirs' = tmpdirs \ {r}
    /\ UNCHANGED backend
    /\ UNCHANGED svars
    /\ UNCHANGED fvars

\* the request's task is cancelled while it waits at line 669 or 673 (the
\* server shuts down, or the middleware's task group is cancelled):
\* CancelledError is raised at the await, no except clause takes it, and
\* the with statement of line 666 removes the directory and what is in it.
\* run_in_executor's thread cannot be cancelled and runs on
cancel_analysis(r) ==
    /\ areq[r].pc \in { "download", "downloaded", "analyze", "analyzed" }
    /\ areq' = [areq EXCEPT
                  ![r].pc = CASE areq[r].pc = "download" -> "download_orphan"
                              [] areq[r].pc = "analyze"  -> "analyze_orphan"
                              [] OTHER                   -> "cancelled",
                  ![r].dl = NoDownload,
                  ![r].an = NoAnalysis,
                  ![r].wav = 0]
    /\ tmpdirs' = tmpdirs \ {r}
    /\ UNCHANGED << backend, cache, completedIds >>
    /\ UNCHANGED svars
    /\ UNCHANGED fvars

(***************************************************************************)
(* _download_audio called on its own                                       *)
(***************************************************************************)
\* the ceiling on a source's declared duration, in seconds (8 minutes)
MaxDurationS == 480
\* the duration the source declares; no line of _download_audio reads it
\* and cmd (lines 249-261) carries no option about it, so what the child
\* does is RunOutcomes whatever the duration
DeclaredDurations == { MaxDurationS, MaxDurationS + 1 }

IdleDownload ==
    [pc |-> "idle", youtube_id |-> None, which |-> FALSE,
     run |-> [kind |-> "oserror", rc |-> -1, file |-> FALSE],
     duration |-> 0, result |-> NoDownload]

\* a caller hands an id to _download_audio; the environment decides whether
\* yt-dlp is installed, what the source declares and what the child does
download_call ==
    /\ dlcall.pc = "idle"
    /\ \E vid \in { GoodId, ShortId }, which \in BOOLEAN,
          run \in RunOutcomes, duration \in DeclaredDurations :
         dlcall' = [IdleDownload EXCEPT !.pc = "called", !.youtube_id = vid,
                                        !.which = which, !.run = run,
                                        !.duration = duration]
    /\ UNCHANGED << avars, svars, timeline, rs >>

\* lines 244-271
download_return ==
    /\ dlcall.pc = "called"
    /\ dlcall' = [dlcall EXCEPT
                    !.pc = "done",
                    !.result = _download_audio(dlcall.which, dlcall.run)]
    /\ UNCHANGED << avars, svars, timeline, rs >>

(***************************************************************************)
(* /stream: the MIME probe                                                 *)
(***************************************************************************)
Whitespace == { " ", "\n", "\t", "\r" }
UpperLetters == << "A","B","C","D","E","F","G","H","I","J","K","L","M",
                   "N","O","P","Q","R","S","T","U","V","W","X","Y","Z" >>
LowerLetters == << "a","b","c","d","e","f","g","h","i","j","k","l","m",
                   "n","o","p","q","r","s","t","u","v","w","x","y","z" >>

\* a byte that is no valid UTF-8
BadByte == "0xFF"

\* bytes.decode(): raises UnicodeDecodeError on a byte that is no UTF-8
CanDecode(bytes) == \A i \in 1..Len(bytes) : bytes[i] # BadByte

\* str.lower()
LowerChar(c) ==
    IF \E i \in 1..Len(UpperLetters) : UpperLetters[i] = c
    THEN LowerLetters[CHOOSE i \in 1..Len(UpperLetters) : UpperLetters[i] = c]
    ELSE c
py_lower(str) == [i \in 1..Len(str) |-> LowerChar(str[i])]

\* str.strip(): leading and trailing whitespace removed
RECURSIVE py_lstrip(_)
py_lstrip(str) ==
    IF str # << >> /\ Head(str) \in Whitespace THEN py_lstrip(Tail(str))
    ELSE str
RECURSIVE py_rstrip(_)
py_rstrip(str) ==
    IF str # << >> /\ str[Len(str)] \in Whitespace
    THEN py_rstrip(SubSeq(str, 1, Len(str) - 1))
    ELSE str
py_strip(str) == py_lstrip(py_rstrip(str))

\* lines 123-132
_EXT_TO_MIME ==
    ( << "w","e","b","m" >> :> "audio/webm" ) @@
    ( << "m","4","a" >>     :> "audio/mp4" ) @@
    ( << "m","p","4" >>     :> "audio/mp4" ) @@
    ( << "a","a","c" >>     :> "audio/aac" ) @@
    ( << "m","p","3" >>     :> "audio/mpeg" ) @@
    ( << "o","g","g" >>     :> "audio/ogg" ) @@
    ( << "o","p","u","s" >> :> "audio/ogg; codecs=opus" ) @@
    ( << "w","a","v" >>     :> "audio/wav" )

\* line 133
_FALLBACK_MIME == "audio/webm"

\* what the probe meets after line 209: the child cannot be started; the
\* 10 s pass before it exits; it exits having printed `stdout`
ProbeStdouts ==
    { << "w","e","b","m","\n" >>,
      << "m","4","a","\n" >>,
      << "M","P","3","\n" >>,
      << " ","o","p","u","s","\r","\n" >>,
      << "f","l","a","c","\n" >>,
      << "m","4","a","\n","m","4","a","\n" >>,
      << "\n" >>,
      << >>,
      << "m","4","a", BadByte >> }

ProbeOutcomes ==
    [kind : {"spawn_error", "timeout"}, stdout : {<< >>}]
      \cup [kind : {"output"}, stdout : ProbeStdouts]

\* _probe_stream_mime with the .strip() of line 225 left out
_probe_stream_mime_unstripped(which, outcome) ==
    IF ~which
    THEN [mime |-> _FALLBACK_MIME, raised |-> FALSE]
    ELSE IF outcome.kind # "output" \/ ~CanDecode(outcome.stdout)
    THEN [mime |-> _FALLBACK_MIME, raised |-> FALSE]
    ELSE LET ext == py_lower(outcome.stdout)
         IN [mime |-> IF ext \in DOMAIN _EXT_TO_MIME
                      THEN _EXT_TO_MIME[ext] ELSE _FALLBACK_MIME,
             raised |-> FALSE]

\* lines 207-231: the value _probe_stream_mime returns, or that it raises
_probe_stream_mime(which, outcome) ==
    IF ~which
    THEN [mime |-> _FALLBACK_MIME, raised |-> FALSE]          \* line 210
    ELSE IF outcome.kind # "output" \/ ~CanDecode(outcome.stdout)
    THEN [mime |-> _FALLBACK_MIME, raised |-> FALSE]          \* lines 229-231
    ELSE LET ext == py_lower(py_strip(outcome.stdout))        \* line 225
         IN [mime |-> IF ext \in DOMAIN _EXT_TO_MIME          \* line 226
                      THEN _EXT_TO_MIME[ext] ELSE _FALLBACK_MIME,
             raised |-> FALSE]

(***************************************************************************)
(* /stream: the handler                                                    *)
(***************************************************************************)
Tokens == { "absent", "invalid", "valid" }
StreamParams == { GoodId, ShortId, NewlineId, EmptyId }

NoOutcome == [kind |-> "none", stdout |-> << >>]

IdleStream ==
    [pc |-> "idle", token |-> "absent", youtube_id |-> None, status |-> 0,
     mime |-> "", probe |-> NoOutcome, probeRaised |-> FALSE,
     sent |-> << >>, cause |-> "none", stderrWaits |-> 0, raised |-> FALSE]

NoProc == [state |-> "none", stalled |-> FALSE, written |-> 0]

\* lines 735-819 after the probe has returned `res`: the handler returns a
\* StreamingResponse, whose status (200, no status_code is given) and
\* media type are fixed before the generator is first run
StartResponse(s, res) ==
    IF res.raised
    THEN [s EXCEPT !.pc = "done", !.status = 500, !.probeRaised = TRUE]
    ELSE [s EXCEPT !.pc = "gen_spawn", !.status = 200, !.mime = res.mime]

\* lines 718-735 and, in _probe_stream_mime, 209-219: from the entry of the
\* handler to the await of the probe's create_subprocess_exec
stream_audio ==
    /\ st.pc = "idle"
    /\ \E token \in Tokens, youtube_id \in StreamParams,
          which \in BOOLEAN, which2 \in BOOLEAN :
         LET s == [st EXCEPT !.token = token, !.youtube_id = youtube_id] IN
         IF token # "valid"
         THEN st' = [s EXCEPT !.pc = "done", !.status = 401]  \* lines 718-723
         ELSE IF ~re_match_id(youtube_id)
         THEN st' = [s EXCEPT !.pc = "done", !.status = 400]  \* lines 725-726
         ELSE IF ~which
         THEN st' = [s EXCEPT !.pc = "done", !.status = 302]  \* lines 728-732
         ELSE IF ~which2
         THEN st' = StartResponse(
                      [s EXCEPT !.probe = [kind |-> "missing", stdout |-> << >>]],
                      _probe_stream_mime(FALSE, NoOutcome))
         ELSE st' = [s EXCEPT !.pc = "probe_spawn"]
    /\ UNCHANGED << pproc, child, pipe >>
    /\ UNCHANGED avars
    /\ UNCHANGED fvars

\* lines 219-223: create_subprocess_exec returns the process or raises
probe_spawn ==
    /\ st.pc = "probe_spawn"
    /\ \/ /\ pproc' = [NoProc EXCEPT !.state = "running"]
          /\ st' = [st EXCEPT !.pc = "probe_communicate"]
       \/ LET o == [kind |-> "spawn_error", stdout |-> << >>] IN
          /\ st' = StartResponse([st EXCEPT !.probe = o],
                                 _probe_stream_mime(TRUE, o))
          /\ pproc' = pproc
    /\ UNCHANGED << child, pipe >>
    /\ UNCHANGED avars
    /\ UNCHANGED fvars

\* lines 224-228: communicate() returns once the child has exited and has
\* been waited for
probe_communicate ==
    /\ st.pc = "probe_communicate"
    /\ \E o \in { x \in ProbeOutcomes : x.kind = "output" } :
         st' = StartResponse([st EXCEPT !.probe = o],
                             _probe_stream_mime(TRUE, o))
    /\ pproc' = [pproc EXCEPT !.state = "reaped"]
    /\ UNCHANGED << child, pipe >>
    /\ UNCHANGED avars
    /\ UNCHANGED fvars

\* lines 224 and 229-231: wait_for cancels communicate() after 10 s and
\* raises TimeoutError; nothing signals the child
probe_timeout ==
    /\ st.pc = "probe_communicate"
    /\ LET o == [kind |-> "timeout", stdout |-> << >>] IN
         st' = StartResponse([st EXCEPT !.probe = o],
                             _probe_stream_mime(TRUE, o))
    /\ UNCHANGED << pproc, child, pipe >>
    /\ UNCHANGED avars
    /\ UNCHANGED fvars

\* a probe child left running exits by itself at some time
ProbeChildExit ==
    /\ pproc.state = "running"
    /\ st.pc # "probe_communicate"
    /\ pproc' = [pproc EXCEPT !.state = "reaped"]
    /\ UNCHANGED << st, child, pipe >>
    /\ UNCHANGED avars
    /\ UNCHANGED fvars

(***************************************************************************)
(* /stream: audio_generator and the process it starts                      *)
(*                                                                         *)
(* child.state: "running"; "exited": ended by itself, not yet waited for   *)
(* by the event loop; "killed": SIGKILL sent by proc.kill(), not yet       *)
(* waited for; "reaped": waited for, returncode set.                       *)
(* child.stalled: the child never writes to its output and never ends by   *)
(* itself (a private video, bot detection).                                *)
(***************************************************************************)
\* proc.stdout.read() has nothing to return yet
ReadBlocks == pipe = << >> /\ child.state = "running"
\* proc.stdout.read() returns b"": the write end is closed and drained
ReadEof == pipe = << >> /\ child.state # "running"

\* lines 798-804: print, proc.kill(), await proc.wait().  kill() raises
\* ProcessLookupError when the loop has already waited for the process;
\* otherwise the generator suspends in wait() until the loop has
Finally(s) ==
    IF child.state = "reaped"
    THEN /\ st' = [s EXCEPT !.pc = "done"]
         /\ child' = child
    ELSE /\ st' = [s EXCEPT !.pc = "wait"]
         /\ child' = [child EXCEPT
                        !.state = IF @ = "running" THEN "killed" ELSE @]

\* lines 753-758: create_subprocess_exec returns the process or raises;
\* it is awaited before the try block
gen_spawn ==
    /\ st.pc = "gen_spawn"
    /\ \/ \E stalled \in BOOLEAN :
            /\ child' = [state |-> "running", stalled |-> stalled,
                         written |-> 0]
            /\ st' = [st EXCEPT !.pc = "first_read"]
       \/ /\ st' = [st EXCEPT !.pc = "done", !.raised = TRUE,
                              !.cause = "spawn_error"]
          /\ child' = child
    /\ UNCHANGED << pproc, pipe >>
    /\ UNCHANGED avars
    /\ UNCHANGED fvars

\* lines 763-766 and 776, 785-786: the first read returns a chunk, which
\* is yielded
first_chunk ==
    /\ st.pc = "first_read"
    /\ pipe # << >>
    /\ st' = [st EXCEPT !.pc = "yield", !.sent = Append(@, Head(pipe))]
    /\ pipe' = Tail(pipe)
    /\ UNCHANGED << pproc, child >>
    /\ UNCHANGED avars
    /\ UNCHANGED fvars

\* lines 763-766 and 776-777: the first read returns b""
first_chunk_empty ==
    /\ st.pc = "first_read"
    /\ ReadEof
    /\ st' = [st EXCEPT !.pc = "stderr_read", !.cause = "empty",
                        !.stderrWaits = @ + 1]
    /\ UNCHANGED << pproc, child, pipe >>
    /\ UNCHANGED avars
    /\ UNCHANGED fvars

\* lines 763-768: nothing arrived within _FIRST_CHUNK_TIMEOUT (12 s)
first_chunk_timeout ==
    /\ st.pc = "first_read"
    /\ ReadBlocks
    /\ st' = [st EXCEPT !.pc = "stderr_read", !.cause = "timeout",
                        !.stderrWaits = @ + 1]
    /\ UNCHANGED << pproc, child, pipe >>
    /\ UNCHANGED avars
    /\ UNCHANGED fvars

\* the read of the error output awaited without wait_for
StderrReadUnbounded == FALSE

\* lines 770 and 779: the read of the error output is under wait_for with
\* a timeout of 1.0
StderrReadBounded == TRUE

\* lines 769-774 and 778-783: the error output is read; the excerpt is
\* decoded for the log line, which raises UnicodeDecodeError when the 512
\* bytes are no UTF-8; then return, through the finally block
stderr_read ==
    /\ st.pc = "stderr_read"
    /\ \E decodable \in BOOLEAN :
         Finally([st EXCEPT !.raised = ~decodable])
    /\ UNCHANGED << pproc, pipe >>
    /\ UNCHANGED avars
    /\ UNCHANGED fvars

\* lines 770-772 and 779-781: the 1.0 s pass, TimeoutError is swallowed and
\* stderr_bytes stays b""; then return, through the finally block
stderr_timeout ==
    /\ st.pc = "stderr_read"
    /\ StderrReadBounded
    /\ Finally(st)
    /\ UNCHANGED << pproc, pipe >>
    /\ UNCHANGED avars
    /\ UNCHANGED fvars

\* lines 786 and 794, then 790: the consumer has taken the chunk and asks
\* for the next one
consumer_next ==
    /\ st.pc = "yield"
    /\ st' = [st EXCEPT !.pc = "read"]
    /\ UNCHANGED << pproc, child, pipe >>
    /\ UNCHANGED avars
    /\ UNCHANGED fvars

\* next_chunk yielding the chunk without taking it off the pipe
next_chunk_reread ==
    /\ st.pc = "read"
    /\ pipe # << >>
    /\ st' = [st EXCEPT !.pc = "yield", !.sent = Append(@, Head(pipe))]
    /\ UNCHANGED << pproc, child, pipe >>
    /\ UNCHANGED avars
    /\ UNCHANGED fvars

\* lines 790-794: a further chunk is read and yielded
next_chunk ==
    /\ st.pc = "read"
    /\ pipe # << >>
    /\ st' = [st EXCEPT !.pc = "yield", !.sent = Append(@, Head(pipe))]
    /\ pipe' = Tail(pipe)
    /\ UNCHANGED << pproc, child >>
    /\ UNCHANGED avars
    /\ UNCHANGED fvars

\* lines 790-792: end of output, break, through the finally block
end_of_stream ==
    /\ st.pc = "read"
    /\ ReadEof
    /\ Finally([st EXCEPT !.cause = "eof"])
    /\ UNCHANGED << pproc, pipe >>
    /\ UNCHANGED avars
    /\ UNCHANGED fvars

\* lines 796-797: the consumer is cancelled while the generator awaits a
\* read; CancelledError is swallowed, then the finally block
cancel_at_await ==
    /\ st.pc \in { "first_read", "stderr_read", "read" }
    /\ Finally([st EXCEPT !.cause = "cancel"])
    /\ UNCHANGED << pproc, pipe >>
    /\ UNCHANGED avars
    /\ UNCHANGED fvars

\* lines 786 and 794: the consumer goes away while the generator is
\* suspended at a yield; the generator is closed (GeneratorExit at the
\* yield), which runs the finally block
close_at_yield ==
    /\ st.pc = "yield"
    /\ Finally([st EXCEPT !.cause = "cancel"])
    /\ UNCHANGED << pproc, pipe >>
    /\ UNCHANGED avars
    /\ UNCHANGED fvars

\* line 802: wait() returns once the loop has waited for the process
wait_done ==
    /\ st.pc = "wait"
    /\ child.state = "reaped"
    /\ st' = [st EXCEPT !.pc = "done"]
    /\ UNCHANGED << pproc, child, pipe >>
    /\ UNCHANGED avars
    /\ UNCHANGED fvars

\* line 802: the consumer is cancelled while the generator awaits wait();
\* the finally block catches ProcessLookupError only, so CancelledError
\* leaves the generator
cancel_at_wait ==
    /\ st.pc = "wait"
    /\ child.state # "reaped"
    /\ st' = [st EXCEPT !.pc = "done", !.raised = TRUE, !.cause = "cancel"]
    /\ UNCHANGED << pproc, child, pipe >>
    /\ UNCHANGED avars
    /\ UNCHANGED fvars

\* the child writes its next chunk
ChildWrite ==
    /\ child.state = "running"
    /\ ~child.stalled
    /\ child.written < MaxChunks
    /\ child' = [child EXCEPT !.written = @ + 1]
    /\ pipe' = Append(pipe, child.written + 1)
    /\ UNCHANGED << st, pproc >>
    /\ UNCHANGED avars
    /\ UNCHANGED fvars

\* the child ends by itself
ChildExit ==
    /\ child.state = "running"
    /\ ~child.stalled
    /\ child' = [child EXCEPT !.state = "exited"]
    /\ UNCHANGED << st, pproc, pipe >>
    /\ UNCHANGED avars
    /\ UNCHANGED fvars

\* the event loop's child watcher waits for a process that has ended
ChildReaped ==
    /\ child.state \in { "exited", "killed" }
    /\ child' = [child EXCEPT !.state = "reaped"]
    /\ UNCHANGED << st, pproc, pipe >>
    /\ UNCHANGED avars
    /\ UNCHANGED fvars

(***************************************************************************)
(* The timelines: _fallback_analysis and the frame loop of                 *)
(* _analyze_with_essentia.  Numbers are fixed-point integers: times and    *)
(* normalised values in units of 10^-4 (the 4 decimals of round(x, 4)),    *)
(* angles in units of 10^-3 rad, durations in units of 1/DurDen s.         *)
(***************************************************************************)
MaxDur == 150
MaxFrames == 10
DurDen == 120
Durations == 0 .. MaxDur

Scale4 == 10000
Milli == 1000
PiMilli == 3142
OutputHz == 60
tempo == 120
sr == 22050
numberBands == 8

Max(a, b) == IF a >= b THEN a ELSE b
Min(a, b) == IF a <= b THEN a ELSE b
Abs(a) == IF a >= 0 THEN a ELSE 0 - a

\* n / d rounded to the nearest integer (no input of the model is a tie)
RoundDiv(n, d) ==
    IF n >= 0 THEN (2 * n + d) \div (2 * d)
    ELSE 0 - ((2 * (0 - n) + d) \div (2 * d))

\* math.sin on [0, pi], by Bhaskara's rational approximation (error below
\* 0.002, exact at 0, pi/2 and pi, never above 1)
SinHalfTurn(x) ==
    LET p == x * (PiMilli - x)
    IN  Min(Scale4,
            (16 * p * 10) \div ((5 * PiMilli * PiMilli - 4 * p) \div Milli))

\* math.sin of a non-negative angle
py_sin(x) ==
    LET r == x % (2 * PiMilli)
    IN  IF r <= PiMilli THEN SinHalfTurn(r) ELSE 0 - SinHalfTurn(r - PiMilli)

\* np.tanh of x / 100, by its (3,2) Pade approximant, which is odd,
\* increasing, and reaches 1 at x = 3 where it is cut off
TanhPos(x) ==
    IF x >= 300 THEN Scale4
    ELSE (10 * x * (270000 + x * x)) \div ((270000 + 9 * x * x) \div 10)
py_tanh(x) == IF x >= 0 THEN TanhPos(x) ELSE 0 - TanhPos(0 - x)

\* the angle t * coef + off of hop i, t = i / 60.0
Angle(i, coef, off) == (i * coef) \div OutputHz + off

\* line 343: range(int(duration_estimate / beat_t)), beat_t = 60.0 / tempo
BeatCount(d) == (d * tempo) \div (DurDen * 60)

\* lines 342-343
FallbackBeatsInverted(d) ==
    [k \in 1 .. BeatCount(d) |-> [t |-> RoundDiv((k - 1) * tempo * Scale4, 60)]]
FallbackBeats(d) ==
    [k \in 1 .. BeatCount(d) |-> [t |-> RoundDiv((k - 1) * 60 * Scale4, tempo)]]

\* line 347: range(int(duration_estimate * 60))
HopCountPlusOne(d) == (d * OutputHz) \div DurDen + 1
HopCount(d) == (d * OutputHz) \div DurDen

\* line 348 and round(t, 4)
FallbackT(i) == RoundDiv(i * Scale4, OutputHz)
\* line 349
FallbackV(i) ==
    RoundDiv(5000 * Scale4 + 3500 * py_sin(Angle(i, 800, 0))
                           + 1500 * py_sin(Angle(i, 3100, 0)), Scale4)
\* line 350
FallbackC(i) ==
    RoundDiv(4000 * Scale4 + 3000 * py_sin(Angle(i, 500, 1200)), Scale4)
\* line 351
FallbackB(i) ==
    RoundDiv(3000 * Scale4 + 2500 * Abs(py_sin(Angle(i, 2 * PiMilli, 0))),
             Scale4)
\* line 352
FallbackMs(i) ==
    [k \in 1 .. 8 |->
        RoundDiv(2000 * Scale4
                 + 2000 * py_sin(Angle(i, 400 + (k - 1) * 150,
                                       (k - 1) * Milli)), Scale4)]

\* line 295
hop_size == sr \div OutputHz
\* line 311 and round(t, 4)
EssentiaT(i) == RoundDiv(i * hop_size * Scale4, sr)

\* what the Essentia algorithms return for one frame: the loudness, the
\* normalised centroid (in units of 10^-4) and the numberBands mel band
\* energies.  The range of each is the library's; the loudness and band
\* values are taken below, at and far above the floors the code subtracts
FrameSignals ==
    { [loud |-> 0 - 120, cent |-> 0,
       mels |-> [k \in 1 .. numberBands |-> (k - 4) * 80]],
      [loud |-> 300, cent |-> Scale4,
       mels |-> [k \in 1 .. numberBands |-> 1000 - 200 * k]] }
EsBeats == { << >>, << 4644, 9288 >> }

\* line 313
loud_norm_unclamped(loud_db) == py_tanh(((loud_db + 60) * 100) \div 60)
loud_norm(loud_db) == py_tanh(Max(0, ((loud_db + 60) * 100) \div 60))
\* line 317
mels_norm(mels) ==
    [k \in 1 .. Len(mels) |-> py_tanh(Max(0, ((mels[k] + 80) * 100) \div 80))]
\* line 318
bass_val(mels) == RoundDiv(mels_norm(mels)[1] + mels_norm(mels)[2], 2)

IdleTimeline ==
    [pc |-> "idle", kind |-> "none", d |-> 0, n |-> 0, i |-> 0,
     beats |-> << >>, loudness |-> << >>, spectral |-> << >>,
     melbands |-> << >>, bass |-> << >>]

\* lines 341-345: _fallback_analysis(d) up to the loop
fallback_begin ==
    /\ timeline.pc = "idle"
    /\ \E d \in Durations :
         timeline' = [IdleTimeline EXCEPT !.pc = "fallback", !.kind = "synthetic",
                                    !.d = d, !.n = HopCount(d),
                                    !.beats = FallbackBeats(d)]
    /\ UNCHANGED << avars, svars, rs, dlcall >>

\* lines 347-356: one pass of the loop
fallback_hop ==
    /\ timeline.pc = "fallback"
    /\ timeline.i < timeline.n
    /\ LET i == timeline.i
           t == FallbackT(i)
       IN timeline' = [timeline EXCEPT
            !.i = i + 1,
            !.loudness = Append(@, [t |-> t, v |-> FallbackV(i)]),
            !.spectral = Append(@, [t |-> t, c |-> FallbackC(i)]),
            !.bass     = Append(@, [t |-> t, b |-> FallbackB(i)]),
            !.melbands = Append(@, [t |-> t, bands |-> FallbackMs(i)])]
    /\ UNCHANGED << avars, svars, rs, dlcall >>

\* lines 358-362
fallback_return ==
    /\ timeline.pc = "fallback"
    /\ timeline.i = timeline.n
    /\ timeline' = [timeline EXCEPT !.pc = "done"]
    /\ UNCHANGED << avars, svars, rs, dlcall >>

\* lines 287-306: the loader, the rhythm extractor and the frame generator
\* decide the beats and the number of frames
essentia_begin ==
    /\ timeline.pc = "idle"
    /\ \E n \in 0 .. MaxFrames, bt \in EsBeats :
         timeline' = [IdleTimeline EXCEPT
                  !.pc = "essentia", !.kind = "real", !.n = n,
                  !.beats = [k \in 1 .. Len(bt) |-> [t |-> bt[k]]]]
    /\ UNCHANGED << avars, svars, rs, dlcall >>

\* lines 308-323: one pass of the frame loop
essentia_frame ==
    /\ timeline.pc = "essentia"
    /\ timeline.i < timeline.n
    /\ \E sig \in FrameSignals :
         LET i == timeline.i
             t == EssentiaT(i)
         IN timeline' = [timeline EXCEPT
              !.i = i + 1,
              !.loudness = Append(@, [t |-> t, v |-> loud_norm(sig.loud)]),
              !.spectral = Append(@, [t |-> t, c |-> sig.cent]),
              !.melbands = Append(@, [t |-> t, bands |-> mels_norm(sig.mels)]),
              !.bass     = Append(@, [t |-> t, b |-> bass_val(sig.mels)])]
    /\ UNCHANGED << avars, svars, rs, dlcall >>

\* lines 325-332
essentia_return ==
    /\ timeline.pc = "essentia"
    /\ timeline.i = timeline.n
    /\ timeline' = [timeline EXCEPT !.pc = "done"]
    /\ UNCHANGED << avars, svars, rs, dlcall >>

(***************************************************************************)
(* extract_youtube_id (lines 165-175).  A URL is a sequence of characters. *)
(***************************************************************************)
\* the strings callers pass: a prefix, an id or a shorter token, a suffix
UrlPrefixes ==
    { << >>,
      << "n","o","t"," ","a"," ","u","r","l" >>,
      << "h","t","t","p","s",":","/","/","y","o","u","t","u",".","b","e","/" >>,
      << "h","t","t","p","s",":","/","/","y","o","u","t","u","b","e",".","c","o","m","/","w","a","t","c","h","?","v","=" >>,
      << "h","t","t","p","s",":","/","/","y","o","u","t","u","b","e",".","c","o","m","/","w","a","t","c","h","?","f","e","a","t","u","r","e","=","s","h","a","r","e","&","v","=" >>,
      << "h","t","t","p","s",":","/","/","y","o","u","t","u","b","e",".","c","o","m","/","e","m","b","e","d","/" >>,
      << "h","t","t","p","s",":","/","/","y","o","u","t","u","b","e",".","c","o","m","/","s","h","o","r","t","s","/" >>,
      << "h","t","t","p","s",":","/","/","y","o","u","t","u","b","e",".","c","o","m","/","c","/","S","o","m","e","C","h","a","n","n","e","l","N","a","m","e","/","w","a","t","c","h","?","v","=" >> }
UrlIds == { GoodId, << >>, << "a","b","c" >>, << "a","-","b","_","c","0","d","1","e","2","f" >> }
UrlSuffixes ==
    { << >>,
      << "&","t","=","4","2","s" >>,
      << "?","s","i","=","0","1","2","3","4","5","6","7","8","9","a","b","c","d","e","f" >>,
      << "/" >> }
Urls == { p \o i \o s : p \in UrlPrefixes, i \in UrlIds, s \in UrlSuffixes }

\* the four patterns of lines 167-170, each the alternatives of its
\* non-capturing group; every one is followed by ([0-9A-Za-z_-]{11})
IdPatterns ==
    << << << "v","=" >>, << "/" >> >>,
       << << "e","m","b","e","d","/" >> >>,
       << << "y","o","u","t","u",".","b","e","/" >> >>,
       << << "s","h","o","r","t","s","/" >> >> >>

\* the markers the id follows in a reference: v=, embed/, youtu.be/, shorts/
IdMarkers ==
    << << << "v","=" >> >>,
       << << "e","m","b","e","d","/" >> >>,
       << << "y","o","u","t","u",".","b","e","/" >> >>,
       << << "s","h","o","r","t","s","/" >> >> >>

\* the alternative pre followed by 11 characters of the class starts at p
MatchAt(pre, url, p) ==
    /\ p + Len(pre) + IdLen - 1 <= Len(url)
    /\ SubSeq(url, p, p + Len(pre) - 1) = pre
    /\ \A j \in 0 .. IdLen - 1 : url[p + Len(pre) + j] \in IdChars

\* re.search(pattern, url) and m.group(1): the leftmost position where an
\* alternative matches, the first such alternative, the 11 characters
\* after it; None when there is no match
re_search(alts, url) ==
    LET hits == { p \in 1 .. Len(url) :
                    \E a \in 1 .. Len(alts) : MatchAt(alts[a], url, p) }
    IN  IF hits = {} THEN None
        ELSE LET p == CHOOSE q \in hits : \A h \in hits : q <= h
                 a == CHOOSE b \in 1 .. Len(alts) :
                        /\ MatchAt(alts[b], url, p)
                        /\ \A e \in 1 .. b - 1 : ~MatchAt(alts[e], url, p)
                 g == p + Len(alts[a])
             IN  SubSeq(url, g, g + IdLen - 1)

\* lines 166-175: the first pattern, in order, that matches
FirstMatch(patterns, url) ==
    LET found == { k \in 1 .. Len(patterns) : re_search(patterns[k], url) # None }
    IN  IF found = {} THEN None
        ELSE re_search(patterns[CHOOSE k \in found : \A h \in found : k <= h],
                       url)

extract_youtube_id(url) == FirstMatch(IdPatterns, url)

IdleResolver == [pc |-> "idle", url |-> << >>, result |-> None]

\* a caller passes a URL
extract_call ==
    /\ rs.pc = "idle"
    /\ \E url \in Urls : rs' = [rs EXCEPT !.pc = "called", !.url = url]
    /\ UNCHANGED << avars, svars, timeline, dlcall >>

\* lines 165-175
extract_return ==
    /\ rs.pc = "called"
    /\ rs' = [rs EXCEPT !.pc = "done", !.result = extract_youtube_id(rs.url)]
    /\ UNCHANGED << avars, svars, timeline, dlcall >>

(***************************************************************************)
(* Specifications                                                          *)
(***************************************************************************)
Init ==
    /\ backend \in [essentia : BOOLEAN, numpy : BOOLEAN]
    /\ cache = << >>
    /\ areq = [r \in AReqs |-> IdleReq]
    /\ tmpdirs = {}
    /\ completedIds = {}
    /\ st = IdleStream
    /\ pproc = NoProc
    /\ child = NoProc
    /\ pipe = << >>
    /\ timeline = IdleTimeline
    /\ rs = IdleResolver
    /\ dlcall = IdleDownload

NextAnalysis ==
    \E r \in AReqs :
        \/ audio_analysis(r)
        \/ DownloadThread(r)
        \/ audio_analysis_downloaded(r)
        \/ AnalyzeThread(r)
        \/ audio_analysis_analyzed(r)
        \/ cancel_analysis(r)

NextStream ==
    \/ stream_audio
    \/ probe_spawn
    \/ probe_communicate
    \/ probe_timeout
    \/ ProbeChildExit
    \/ gen_spawn
    \/ first_chunk
    \/ first_chunk_empty
    \/ first_chunk_timeout
    \/ stderr_read
    \/ stderr_timeout
    \/ consumer_next
    \/ next_chunk
    \/ end_of_stream
    \/ cancel_at_await
    \/ close_at_yield
    \/ wait_done
    \/ cancel_at_wait
    \/ ChildWrite
    \/ ChildExit
    \/ ChildReaped

NextTimeline ==
    \/ fallback_begin
    \/ fallback_hop
    \/ fallback_return
    \/ essentia_begin
    \/ essentia_frame
    \/ essentia_return

NextResolver ==
    \/ extract_call
    \/ extract_return

\* the steps of a /stream request and the entry steps of two
\* /audio_analysis requests (one can fill the cache, one can come without
\* an id), in any order
ServiceReqs == 1 .. 2
NextService ==
    \/ NextStream
    \/ \E r \in ServiceReqs : audio_analysis(r)

NextDownload ==
    \/ download_call
    \/ download_return

\* the /audio_analysis requests alone
AnalysisSpec == Init /\ [][NextAnalysis]_vars

\* one /stream request alone
StreamSpec == Init /\ [][NextStream]_vars

\* one run of a timeline builder alone
TimelineSpec == Init /\ [][NextTimeline]_vars

\* one call of extract_youtube_id alone
ResolverSpec == Init /\ [][NextResolver]_vars

\* one call of _download_audio alone
DownloadSpec == Init /\ [][NextDownload]_vars

\* a /stream request beside /audio_analysis requests that fill the cache
ServiceSpec == Init /\ [][NextService]_vars

\* StreamSpec with the scheduling the event loop and the kernel give: a
\* timer that is armed fires, a process that was sent SIGKILL or that has
\* ended is waited for by the loop's child watcher, and a coroutine whose
\* await has completed is resumed
StreamFairSpec ==
    /\ StreamSpec
    /\ WF_vars(first_chunk_timeout)
    /\ WF_vars(stderr_timeout)
    /\ WF_vars(ChildReaped)
    /\ WF_vars(wait_done)

(***************************************************************************)
(* Properties                                                              *)
(***************************************************************************)
\* a SourceId: exactly eleven characters of the class
ValidSourceId(s) ==
    /\ s # None
    /\ Len(s) = IdLen
    /\ \A i \in 1..Len(s) : s[i] \in IdChars

\* C1: every /audio_analysis request that has returned has answered 200
\* with a real or a synthetic timeline, whatever failed on its way (the DB
\* lookup, no id, a missing backend or yt-dlp, the download, the size
\* guard, the analyzer).
C1_AlwaysATimeline ==
    \A r \in AReqs :
        areq[r].pc = "done" =>
            /\ areq[r].resp.status = 200
            /\ areq[r].resp.body.kind \in { "real", "synthetic" }

\* C1 witness: one request has returned after its yt-dlp child was run and
\* failed, another after the analyzer raised, both with the synthetic
\* timeline.
C1_Witness ==
    \E r1, r2 \in AReqs :
        /\ areq[r1].pc = "done" /\ areq[r2].pc = "done"
        /\ areq[r1].dl.proc = "reaped" /\ ~areq[r1].dl.ret
        /\ areq[r2].an.raised
        /\ areq[r1].resp = Ok(_fallback_analysis)
        /\ areq[r2].resp = Ok(_fallback_analysis)

\* C2: when the streaming child produced no bytes at all (first-chunk
\* timeout or an empty first read), the client has received status 502.
C2_NoOutputIs502 ==
    (st.pc = "done" /\ st.cause \in { "timeout", "empty" } /\ st.sent = << >>)
        => st.status = 502

\* C3: once the generator has finished, the process it started has been
\* waited for.
C3_ChildReapedAtFinish ==
    (st.pc = "done" /\ child.state # "none") => child.state = "reaped"

\* C4: a request that starts after a request for the same id has completed
\* returns, in its first step, the timeline the cache holds for the id,
\* changes neither the cache nor the temporary directories, and never has
\* a download or an analysis.
C4_LaterRequestsHitTheCache ==
    [][ \A r \in AReqs :
          /\ (areq[r].pc = "idle" /\ areq'[r].pc # "idle"
                /\ areq'[r].vid \in completedIds)
               => /\ areq'[r].pc = "done"
                  /\ areq'[r].vid \in DOMAIN cache
                  /\ areq'[r].resp = Ok(cache[areq'[r].vid])
                  /\ cache' = cache
                  /\ tmpdirs' = tmpdirs
          /\ areq'[r].late
               => /\ areq'[r].pc = "done"
                  /\ areq'[r].dl = NoDownload
                  /\ areq'[r].an = NoAnalysis
      ]_vars

\* C4 witness: a request that started after another one for its id had
\* completed has returned the stored real timeline while no request is
\* downloading or analysing.
C4_Witness ==
    \E r \in AReqs :
        /\ areq[r].late
        /\ areq[r].pc = "done"
        /\ areq[r].resp.body.kind = "real"
        /\ areq[r].resp.body = cache[areq[r].vid]

\* C5: two requests for the same id that have returned have returned the
\* same content.
C5_SameIdSameContent ==
    \A r1, r2 \in AReqs :
        (/\ areq[r1].pc = "done" /\ areq[r2].pc = "done"
         /\ Truthy(areq[r1].vid) /\ areq[r1].vid = areq[r2].vid)
            => areq[r1].resp = areq[r2].resp

\* C6: an entry of the cache is never replaced or removed.
C6_InsertIfAbsent ==
    [][ \A k \in DOMAIN cache : k \in DOMAIN cache' /\ cache'[k] = cache[k] ]_vars

\* C7: the read of the error output is entered at most once, and a
\* generator that waits for the first chunk of a child that never writes
\* finishes.
C7_StalledChildEnds ==
    /\ [](st.stderrWaits <= 1)
    /\ (st.pc = "first_read" /\ child.stalled) ~> (st.pc = "done")

\* C7 witness: the generator has finished on a child that never wrote,
\* after the first-chunk timeout and one read of the error output.
C7_Witness ==
    /\ st.pc = "done"
    /\ child.stalled
    /\ st.cause = "timeout"
    /\ st.stderrWaits = 1
    /\ st.sent = << >>

\* C8: after _probe_stream_mime or _download_audio has returned, the
\* process it started is not running.
C8_NoProcessLeftRunning ==
    /\ st.probe.kind # "none" => pproc.state \in { "none", "reaped" }
    /\ \A r \in AReqs :
         areq[r].pc \in { "downloaded", "analyze", "analyzed", "done" }
            => areq[r].dl.proc \in { "none", "reaped" }

\* the probe printed extension e: its output is e in any letter case, with
\* nothing but whitespace around it
Printed(stdout, e) ==
    /\ \A i \in 1..Len(stdout) : stdout[i] # BadByte
    /\ \E i \in 0..Len(stdout) :
         /\ i + Len(e) <= Len(stdout)
         /\ \A k \in 1..Len(e) : LowerChar(stdout[i + k]) = e[k]
         /\ \A k \in 1..Len(stdout) :
              (k <= i \/ k > i + Len(e)) => stdout[k] \in Whitespace

\* C9: _probe_stream_mime has not raised; it returned "audio/webm" when
\* yt-dlp was missing, could not be started or timed out, and when the
\* output was not a known extension; it returned the table's type of the
\* extension the probe printed otherwise.
C9_ProbeMime ==
    st.probe.kind # "none" =>
        /\ ~st.probeRaised
        /\ st.status = 200
        /\ st.probe.kind \in { "missing", "spawn_error", "timeout" }
             => st.mime = "audio/webm"
        /\ st.probe.kind = "output" =>
             /\ \A e \in DOMAIN _EXT_TO_MIME :
                  Printed(st.probe.stdout, e) => st.mime = _EXT_TO_MIME[e]
             /\ (~\E e \in DOMAIN _EXT_TO_MIME : Printed(st.probe.stdout, e))
                  => st.mime = "audio/webm"

\* C9 witness: the probe printed "MP3" and a newline and the response is
\* typed audio/mpeg.
C9_Witness ==
    /\ st.probe.kind = "output"
    /\ st.probe.stdout = << "M","P","3","\n" >>
    /\ st.mime = "audio/mpeg"

\* C10: every key of the cache, every id handed to _download_audio and
\* every id handed to the streaming child is a SourceId.
C10_OnlySourceIds ==
    /\ \A k \in DOMAIN cache : ValidSourceId(k)
    /\ \A r \in AReqs :
         areq[r].pc \in { "download", "downloaded", "analyze", "analyzed" }
            => ValidSourceId(areq[r].vid)
    /\ child.state # "none" => ValidSourceId(st.youtube_id)

\* the four per-hop sequences of the timeline being built
HopSequences ==
    << timeline.loudness, timeline.spectral, timeline.melbands,
       timeline.bass >>

\* C11: in every timeline, real or synthetic, the per-hop record with index
\* i carries t = i/60, up to one unit of the fourth decimal.
C11_HopTimes ==
    \A q \in 1 .. 4 : \A k \in 1 .. Len(HopSequences[q]) :
        Abs(HopSequences[q][k].t - RoundDiv((k - 1) * Scale4, 60)) <= 1

\* C12: the four per-hop sequences have the same length N and the same t at
\* every index, every melbands record has exactly 8 bands, and a finished
\* synthetic timeline for the duration d has N = floor(60 * d).
C12_SameShape ==
    LET N == Len(timeline.loudness)
    IN  /\ \A q \in 1 .. 4 : Len(HopSequences[q]) = N
        /\ \A k \in 1 .. N :
             /\ \A q \in 1 .. 4 : HopSequences[q][k].t = timeline.loudness[k].t
             /\ Len(timeline.melbands[k].bands) = 8
        /\ (timeline.pc = "done" /\ timeline.kind = "synthetic") =>
             /\ N * DurDen <= 60 * timeline.d
             /\ 60 * timeline.d < (N + 1) * DurDen

\* C12 witness: _fallback_analysis has returned for a duration d with
\* 60 * d = 30.5, and the timeline has 30 records per sequence.
C12_Witness ==
    /\ timeline.pc = "done"
    /\ timeline.kind = "synthetic"
    /\ timeline.d = 61
    /\ Len(timeline.bass) = 30

\* C13: the beats of _fallback_analysis(d), d >= 0, are strictly increasing
\* in t and every beat t lies within [0, d].
C13_BeatsWithinDuration ==
    timeline.kind = "synthetic" =>
        \A k \in 1 .. Len(timeline.beats) :
            /\ timeline.beats[k].t >= 0
            /\ timeline.beats[k].t * DurDen <= timeline.d * Scale4
            /\ k > 1 => timeline.beats[k - 1].t < timeline.beats[k].t

\* C13 witness: a synthetic timeline with two beats, for a duration that is
\* not a whole number of beat periods.
C13_Witness ==
    /\ timeline.pc = "done"
    /\ timeline.kind = "synthetic"
    /\ Len(timeline.beats) = 2
    /\ timeline.d = 121

C15_ReturnsTheMediaId ==
    rs.pc = "done" =>
        /\ rs.result = FirstMatch(IdMarkers, rs.url)
        /\ rs.result # None =>
             /\ Len(rs.result) = IdLen
             /\ \A j \in 1 .. IdLen : rs.result[j] \in IdChars

\* C17: _download_audio returns True only when the child exited with code 0
\* and the output file exists; a non-zero exit code, a missing output file,
\* the 120 s timeout, a missing yt-dlp binary and any other exception each
\* give False, and no exception reaches the caller.
C17_DownloadResult ==
    dlcall.pc = "done" =>
        /\ ~dlcall.result.raised
        /\ dlcall.result.ret =>
             /\ dlcall.which
             /\ dlcall.run.kind = "exit"
             /\ dlcall.run.rc = 0
             /\ dlcall.run.file
        /\ (dlcall.run.kind = "exit" /\ dlcall.run.rc # 0) => ~dlcall.result.ret
        /\ ~dlcall.run.file => ~dlcall.result.ret
        /\ dlcall.run.kind = "timeout" => ~dlcall.result.ret
        /\ ~dlcall.which => ~dlcall.result.ret
        /\ dlcall.run.kind = "oserror" => ~dlcall.result.ret

\* C17 witness: the child was killed at the 120 s timeout with the output
\* file already on disk, and _download_audio has returned False.
C17_Witness ==
    /\ dlcall.pc = "done"
    /\ dlcall.which
    /\ dlcall.run.kind = "timeout"
    /\ dlcall.run.file
    /\ ~dlcall.result.ret
    /\ ~dlcall.result.raised

\* C18: a source whose declared duration exceeds the ceiling of 8 minutes
\* is rejected before a full download: _download_audio returns False and
\* no output file has been written.
C18_LongSourcesRejected ==
    (dlcall.pc = "done" /\ dlcall.duration > MaxDurationS) =>
        /\ ~dlcall.result.ret
        /\ ~(dlcall.which /\ dlcall.run.file)

\* the path of the WAV file of request r: the directory mkdtemp made for
\* r, which no other call of mkdtemp is given while it exists, and the id
wav_path(r) == << r, areq[r].vid >>

\* C16: once a request has left the analysis block, by whatever path, its
\* temporary directory and its WAV file are gone, and two requests never
\* have the same WAV path.
C16_TempFilesDeleted ==
    /\ \A r \in AReqs :
         areq[r].pc \in { "idle", "done", "download_orphan", "analyze_orphan",
                          "cancelled" }
            => (r \notin tmpdirs /\ areq[r].wav = 0)
    /\ \A r1, r2 \in tmpdirs : r1 # r2 => wav_path(r1) # wav_path(r2)

\* C19: once the first chunk has been yielded, what the generator has
\* yielded is the chunks read from the child, in the order written, none
\* lost and none twice (with the unread ones they are all the child wrote);
\* no timeout is armed or fires any more; and the generator stops only at
\* the end of the output, having yielded all of it, or when its consumer is
\* cancelled or goes away.
C19_ChunksInOrder ==
    st.sent # << >> =>
        /\ st.sent \o pipe = [k \in 1 .. child.written |-> k]
        /\ st.stderrWaits = 0
        /\ st.pc \in { "yield", "read", "wait", "done" }
        /\ st.pc \in { "yield", "read" } => st.cause = "none"
        /\ st.pc \in { "wait", "done" } => st.cause \in { "eof", "cancel" }
        /\ st.cause = "eof" => (pipe = << >> /\ child.state # "running")

\* C19 witness: the child wrote two chunks and ended, and the generator has
\* finished at the end of the output having yielded both.
C19_Witness ==
    /\ st.pc = "done"
    /\ st.cause = "eof"
    /\ st.sent = << 1, 2 >>

\* C20: when the WAV file is larger than 45 MB, or Essentia or NumPy is
\* missing, _analyze_with_essentia raises before the loader is invoked, and
\* the /audio_analysis request then returns the synthetic timeline and
\* stores it in the cache under the id.
C20_GuardBeforeLoader ==
    /\ [](\A b \in [essentia : BOOLEAN, numpy : BOOLEAN], sizeMB \in WavSizes,
             es \in { "ok", "raise" }, w \in Waveforms :
            (~b.essentia \/ ~b.numpy \/ sizeMB > OomGuardMB) =>
                /\ _analyze_with_essentia(b, sizeMB, es, w).raised
                /\ ~_analyze_with_essentia(b, sizeMB, es, w).loaded)
    /\ [](\A r \in AReqs :
            areq[r].an.cause \in { "too_large", "unavailable" } =>
                /\ areq[r].an.raised
                /\ ~areq[r].an.loaded
                /\ areq[r].pc = "done" => areq[r].resp = Ok(_fallback_analysis))
    /\ [][\A r \in AReqs :
            /\ ( /\ areq[r].pc = "analyzed"
                 /\ areq[r].an.cause \in { "too_large", "unavailable" }
                 /\ areq'[r].pc = "done" )
               => ( /\ areq'[r].resp = Ok(_fallback_analysis)
                    /\ areq[r].vid \in DOMAIN cache'
                    /\ cache'[areq[r].vid] = _fallback_analysis )
            /\ ( /\ areq[r].pc = "idle"
                 /\ areq'[r].pc = "done"
                 /\ Truthy(areq'[r].vid)
                 /\ ~CacheHit(cache, areq'[r].vid)
                 /\ (~backend.essentia \/ ~backend.numpy) )
               => ( /\ areq'[r].resp = Ok(_fallback_analysis)
                    /\ areq'[r].vid \in DOMAIN cache'
                    /\ cache'[areq'[r].vid] = _fallback_analysis )
       ]_vars

\* C20 witness: a request whose WAV was over the guard has returned the
\* synthetic timeline without the loader having run, and the cache holds
\* the synthetic timeline for its id.
C20_Witness ==
    \E r \in AReqs :
        /\ areq[r].pc = "done"
        /\ areq[r].an.cause = "too_large"
        /\ ~areq[r].an.loaded
        /\ areq[r].resp = Ok(_fallback_analysis)
        /\ areq[r].vid \in DOMAIN cache
        /\ cache[areq[r].vid] = _fallback_analysis

\* C21: /stream starts no child process, neither the MIME probe nor the
\* streaming process, unless the token is present and valid and youtube_id
\* is 11 characters of [a-zA-Z0-9_-]; a missing or invalid token is
\* answered 401 and an invalid id 400, both with no process started, and
\* the token is checked before the id.
C21_NoSpawnUnlessAuthorized ==
    /\ (pproc.state # "none" \/ child.state # "none") =>
         (st.token = "valid" /\ ValidSourceId(st.youtube_id))
    /\ (st.pc # "idle" /\ st.token # "valid") =>
         /\ st.pc = "done" /\ st.status = 401
         /\ pproc.state = "none" /\ child.state = "none"
    /\ (st.pc # "idle" /\ st.token = "valid"
                       /\ ~ValidSourceId(st.youtube_id)) =>
         /\ st.pc = "done" /\ st.status = 400
         /\ pproc.state = "none" /\ child.state = "none"

\* C22: no step of a /stream request changes the analysis cache, whatever
\* the cache holds, and an /audio_analysis request that resolves no id
\* returns the synthetic timeline and leaves the cache unchanged.
C22_StreamLeavesCacheAlone ==
    [][ /\ (svars' # svars) => (cache' = cache)
        /\ \A r \in AReqs :
             ( /\ areq[r].pc = "idle"
               /\ areq'[r].pc = "done"
               /\ areq'[r].vid \in { None, EmptyId } )
             => ( /\ cache' = cache
                  /\ areq'[r].resp = Ok(_fallback_analysis) )
      ]_vars

\* C22 witness: the stream has delivered a chunk while the cache holds a
\* timeline for the id being streamed, and a request without an id has
\* returned the synthetic timeline.
C22_Witness ==
    /\ st.sent # << >>
    /\ st.youtube_id \in DOMAIN cache
    /\ \E r \in AReqs :
         /\ areq[r].pc = "done"
         /\ areq[r].vid = None
         /\ areq[r].resp = Ok(_fallback_analysis)

====
